---- MODULE Spec2Model ----
(***************************************************************************)
(* Model of dataxr_tools.research_drive.create_study_folder: the folder    *)
(* materializer create_folder_structure and the policy writer              *)
(* create_folder_policy, acting on a filesystem that users also write to.  *)
(*                                                                         *)
(* Strings are TLA+ strings, a path is the sequence of its segments, the   *)
(* filesystem is a function from the existing paths to their nodes, a file *)
(* content is a sequence of lines.                                         *)
(***************************************************************************)
EXTENDS Integers, Sequences, FiniteSets, TLC

VARIABLES fs, now, args, call, userAdded, ncalls, input, output

vars == <<fs, now, args, call, userAdded, ncalls, input, output>>

(***************************************************************************)
(* Bounds                                                                  *)
(***************************************************************************)
MaxCalls == 2
MaxUserAdds == 1
MaxClock == 1

(***************************************************************************)
(* Python values                                                           *)
(***************************************************************************)
\* Python's None, kept apart from every string the program handles
None == "<None>"

\* truthiness of an optional string: None and "" are falsy
Truthy(v) == v # None /\ v # ""

\* how an f-string renders a value
Str(v) == IF v = None THEN "None" ELSE v

\* v or default
OrElse(v, d) == IF Truthy(v) THEN v ELSE d

\* str.startswith
StartsWith(s, p) == Len(s) >= Len(p) /\ SubSeq(s, 1, Len(p)) = p

\* c in s, for a one-character c
Contains(s, c) == \E i \in 1..Len(s) : SubSeq(s, i, i) = c

\* position of the first c in s, or 0
FirstIndex(s, c) ==
    IF Contains(s, c)
    THEN CHOOSE i \in 1..Len(s) :
            /\ SubSeq(s, i, i) = c
            /\ \A j \in 1..(i - 1) : SubSeq(s, j, j) # c
    ELSE 0

RECURSIVE Split(_, _)
\* str.split(c): the pieces of s between the occurrences of c
Split(s, c) ==
    LET i == FirstIndex(s, c)
    IN  IF i = 0 THEN <<s>>
        ELSE <<SubSeq(s, 1, i - 1)>> \o Split(SubSeq(s, i + 1, Len(s)), c)

\* the non-empty pieces: the path segments a name contributes
Segments(s) ==
    LET parts == Split(s, "/")
        F[i \in 0..Len(parts)] ==
            IF i = 0 THEN << >>
            ELSE IF parts[i] = "" THEN F[i - 1] ELSE Append(F[i - 1], parts[i])
    IN  F[Len(parts)]

\* os.path.join(path, name) for a relative name
Join(path, name) == path \o Segments(name)

Last(seq) == seq[Len(seq)]

Digit(n) == CASE n = 0 -> "0" [] n = 1 -> "1" [] n = 2 -> "2" [] n = 3 -> "3"
              [] n = 4 -> "4" [] n = 5 -> "5" [] n = 6 -> "6" [] n = 7 -> "7"
              [] n = 8 -> "8" [] n = 9 -> "9"

RECURSIVE NatStr(_)
NatStr(n) == IF n < 10 THEN Digit(n) ELSE NatStr(n \div 10) \o Digit(n % 10)

(***************************************************************************)
(* The clock: seconds; strftime renders it at day or second resolution     *)
(***************************************************************************)
SecondsPerDay == 86400

\* datetime.now().strftime("%Y-%m-%d")
Today(t) == NatStr(t \div SecondsPerDay)

\* datetime.now().strftime("%Y%m%d_%H%M%S")
Stamp(t) == NatStr(t \div SecondsPerDay) \o "_" \o NatStr(t % SecondsPerDay)

(***************************************************************************)
(* The filesystem                                                          *)
(***************************************************************************)
Dir == [kind |-> "dir"]
File(content) == [kind |-> "file", content |-> content]

\* os.path.exists
Exists(f, p) == p \in DOMAIN f

IsDir(f, p) == Exists(f, p) /\ f[p].kind = "dir"
IsFile(f, p) == Exists(f, p) /\ f[p].kind = "file"

Parent(p) == SubSeq(p, 1, Len(p) - 1)

Prefixes(p) == {SubSeq(p, 1, i) : i \in 0..Len(p)}

\* p is q or lies below q
Under(p, q) == Len(p) >= Len(q) /\ SubSeq(p, 1, Len(q)) = q

Put(f, p, node) == [q \in DOMAIN f \cup {p} |-> IF q = p THEN node ELSE f[q]]

\* os.makedirs(p, exist_ok): every missing ancestor and p become
\* directories; raises when an ancestor is a file, or p exists and
\* (exist_ok is false or p is not a directory)
makedirs(f, p, exist_ok) ==
    IF \E q \in Prefixes(p) : q # p /\ IsFile(f, q)
    THEN [ok |-> FALSE, fs |-> f]
    ELSE IF Exists(f, p)
    THEN [ok |-> exist_ok /\ IsDir(f, p), fs |-> f]
    ELSE [ok |-> TRUE,
          fs |-> [q \in DOMAIN f \cup Prefixes(p) |->
                    IF q \in DOMAIN f THEN f[q] ELSE Dir]]

\* open(p, "w") followed by write(content). outcome is what the I/O does:
\* "ok", "open_failed" (nothing changes) or "write_failed" (the file was
\* truncated by open and the content did not arrive)
CanOpen(f, p) == ~IsDir(f, p) /\ IsDir(f, Parent(p))

write_file(f, p, content, outcome) ==
    IF ~CanOpen(f, p) \/ outcome = "open_failed"
    THEN [ok |-> FALSE, fs |-> f]
    ELSE IF outcome = "write_failed"
    THEN [ok |-> FALSE, fs |-> Put(f, p, File(<< >>))]
    ELSE [ok |-> TRUE, fs |-> Put(f, p, File(content))]

\* shutil.copy2(src, dst): dst is replaced by a copy of src; a directory
\* dst receives the copy under src's base name
copy2(f, src, dst, fails) ==
    LET to == IF IsDir(f, dst) THEN Append(dst, Last(src)) ELSE dst
    IN  IF fails \/ ~IsFile(f, src) \/ ~CanOpen(f, to)
        THEN [ok |-> FALSE, fs |-> f]
        ELSE [ok |-> TRUE, fs |-> Put(f, to, f[src])]

(***************************************************************************)
(* str.lower and str.upper                                                 *)
(***************************************************************************)
\* the upper-case letters with their lower-case forms
Letters ==
    {
      <<"A", "a">>, <<"B", "b">>, <<"C", "c">>, <<"D", "d">>,
      <<"E", "e">>, <<"F", "f">>, <<"G", "g">>, <<"H", "h">>,
      <<"I", "i">>, <<"J", "j">>, <<"K", "k">>, <<"L", "l">>,
      <<"M", "m">>, <<"N", "n">>, <<"O", "o">>, <<"P", "p">>,
      <<"Q", "q">>, <<"R", "r">>, <<"S", "s">>, <<"T", "t">>,
      <<"U", "u">>, <<"V", "v">>, <<"W", "w">>, <<"X", "x">>,
      <<"Y", "y">>, <<"Z", "z">>
    }

LowerMap == [c \in {l[1] : l \in Letters} |-> (CHOOSE l \in Letters : l[1] = c)[2]]

UpperMap == [c \in {l[2] : l \in Letters} |-> (CHOOSE l \in Letters : l[2] = c)[1]]

LowerChar(c) == IF c \in DOMAIN LowerMap THEN LowerMap[c] ELSE c

UpperChar(c) == IF c \in DOMAIN UpperMap THEN UpperMap[c] ELSE c

RECURSIVE Lower(_)
Lower(s) ==
    IF s = "" THEN ""
    ELSE LowerChar(SubSeq(s, 1, 1)) \o Lower(SubSeq(s, 2, Len(s)))

RECURSIVE Upper(_)
Upper(s) ==
    IF s = "" THEN ""
    ELSE UpperChar(SubSeq(s, 1, 1)) \o Upper(SubSeq(s, 2, Len(s)))

\* dict.get(key, default) on a user record
Get(u, key, default) == IF key \in DOMAIN u THEN u[key] ELSE default

(***************************************************************************)
(* filter_owners_and_pis_with_write_share_access                           *)
(***************************************************************************)
target_roles == {"owner", "principal investigator", "pi", "principal_investigator"}

target_access == "READ-WRITE-SHARE"

\* the role compared as it is written, without lowering it
KeepsUser_case_sensitive(user) ==
    /\ Get(user, "role", "") \in target_roles
    /\ Upper(Get(user, "access_level", "")) = target_access

KeepsUser(user) ==
    /\ Lower(Get(user, "role", "")) \in target_roles
    /\ Upper(Get(user, "access_level", "")) = target_access

filter_owners_and_pis_with_write_share_access(authorized_users) ==
    SelectSeq(authorized_users, KeepsUser)

(***************************************************************************)
(* parse_users_from_study_json                                             *)
(***************************************************************************)
\* str.endswith
EndsWith(s, p) == Len(s) >= Len(p) /\ SubSeq(s, Len(s) - Len(p) + 1, Len(s)) = p

\* `sub in s` for strings
ContainsStr(s, sub) ==
    \/ sub = ""
    \/ \E i \in 1..(Len(s) - Len(sub) + 1) : SubSeq(s, i, i + Len(sub) - 1) = sub

Whitespace == {" ", "\t", "\n", "\r"}

RECURSIVE LStripChars(_, _)
\* str.lstrip(chars)
LStripChars(s, chars) ==
    IF s # "" /\ SubSeq(s, 1, 1) \in chars
    THEN LStripChars(SubSeq(s, 2, Len(s)), chars)
    ELSE s

RECURSIVE RStripChars(_, _)
\* str.rstrip(chars)
RStripChars(s, chars) ==
    IF s # "" /\ SubSeq(s, Len(s), Len(s)) \in chars
    THEN RStripChars(SubSeq(s, 1, Len(s) - 1), chars)
    ELSE s

\* str.strip()
Strip(s) == LStripChars(RStripChars(s, Whitespace), Whitespace)

\* the display name of a listed entry: "Name (email)" is taken apart and
\* put together again, anything else is kept as it is
display_name(entry) ==
    IF Contains(entry, "(") /\ EndsWith(entry, ")")
    THEN LET name_part == Strip(Split(entry, "(")[1])
             email_part == Strip(RStripChars(Split(entry, "(")[2], {")"}))
         IN  name_part \o " (" \o email_part \o ")"
    ELSE entry

user_record(name, role, access_level) ==
    [name |-> name, role |-> role, access_level |-> access_level,
     expiration |-> "PERMANENT"]

\* the records of the entries of one list
listed_users(entries, role, access_level) ==
    [i \in 1..Len(entries) |-> user_record(display_name(entries[i]), role, access_level)]

\* owners given the READ-WRITE level
owner_records_read_write(study_data) ==
    listed_users(Get(study_data, "owners", << >>), "Owner", "READ-WRITE")

owner_records(study_data) ==
    listed_users(Get(study_data, "owners", << >>), "Owner", "READ-WRITE-SHARE")

contributor_records(study_data) ==
    listed_users(Get(study_data, "contributors", << >>), "Contributor", "READ")

reader_records(study_data) ==
    listed_users(Get(study_data, "readers", << >>), "Reader", "READ")

pi_display_name(pi_name, pi_email) ==
    IF Truthy(pi_email) THEN pi_name \o " (" \o pi_email \o ")" ELSE pi_name

\* any(pi_display_name.lower() in user["name"].lower() for user in users)
pi_already_added(users, display) ==
    \E i \in 1..Len(users) : ContainsStr(Lower(users[i].name), Lower(display))

\* the principal investigator's record, appended unless already there
with_principal_investigator(users, pi_name, pi_email) ==
    IF Truthy(pi_name)
    THEN LET display == pi_display_name(pi_name, pi_email)
         IN  IF pi_already_added(users, display) THEN users
             ELSE Append(users, user_record(display, "Principal Investigator",
                                            "READ-WRITE-SHARE"))
    ELSE users

parse_users_from_study_json(study_data) ==
    with_principal_investigator(
        owner_records(study_data) \o contributor_records(study_data)
            \o reader_records(study_data),
        Get(study_data, "effective_principal_investigator_name", None),
        Get(study_data, "effective_principal_investigator_email", None))

(***************************************************************************)
(* create_folder_policy                                                    *)
(***************************************************************************)
PolicyName == "FOLDER_POLICY.md"

\* one line of the access table
AccessRow(user) ==
    "| " \o Get(user, "name", "[Name]") \o " | " \o Get(user, "role", "[Role]")
         \o " | " \o Get(user, "access_level", "READ")
         \o " | " \o Get(user, "expiration", "PERMANENT") \o " |"

\* the rows of the filtered users, or the one placeholder row
access_rows(authorized_users) ==
    LET filtered_users == filter_owners_and_pis_with_write_share_access(authorized_users)
        rows == [i \in 1..Len(filtered_users) |-> AccessRow(filtered_users[i])]
    IN  IF rows = << >>
        THEN <<"| [Name] | [Role] | [READ/READ-WRITE] | [YYYY-MM-DD or PERMANENT] |">>
        ELSE rows

\* policy_content: the lines of the document that depend on the arguments
\* (the fixed text between them is the same in every render)
policy_content(investigation_label, study_label, workpackage, meta, t) ==
    LET inv_label == OrElse(investigation_label, "[LABEL1]")
        study_lab == OrElse(study_label, "[LABEL2]")
    IN  << "# FOLDER POLICY",
           "- **Study Title**: " \o OrElse(meta.study_title, "[Study Title]"),
           "- **Investigation Label**: " \o inv_label,
           "- **Study Label**: " \o study_lab,
           "- **Workpackage**: " \o OrElse(workpackage, "[Workpackage ID]"),
           "- **Date Created**: " \o Today(t),
           "- **Project Lead**: " \o OrElse(meta.pi_name, "[Name]"),
           "- **Contact Email**: " \o OrElse(meta.pi_email, "[Email]"),
           "**Current Sensitivity Level**: " \o
               OrElse(meta.sensitivity_level,
                      "[SELECT ONE: PUBLIC / INTERNAL / CONFIDENTIAL / RESTRICTED]") >>
        \o access_rows(meta.authorized_users)
        \o << "- All first-level folders are prefixed with: **"
                 \o inv_label \o "-" \o study_lab \o "_**" >>

PolicyPath(folder_path) == Append(folder_path, PolicyName)

\* a backup name that does not begin with the policy file's name
BackupName_unprefixed(t) == "policy_backup_" \o Stamp(t)

BackupName(t) == PolicyName \o ".bak." \o Stamp(t)

BackupPath(folder_path, t) == Append(folder_path, BackupName(t))

\* policy_backup without the try/except around the copy: a failing copy
\* leaves the function as an exception
policy_backup_uncaught(f, policy_path, backup_path, overwrite_existing, io) ==
    IF Exists(f, policy_path) /\ overwrite_existing
    THEN LET c == copy2(f, policy_path, backup_path, io.backup_fails)
         IN  [fs |-> c.fs, backup |-> IF c.ok THEN "ok" ELSE "failed", raised |-> ~c.ok]
    ELSE [fs |-> f, backup |-> "none", raised |-> FALSE]

\* the backup step, taken only when the file exists and is to be
\* overwritten. A failing copy is caught: raised stays FALSE
policy_backup(f, policy_path, backup_path, overwrite_existing, io) ==
    IF Exists(f, policy_path) /\ overwrite_existing
    THEN LET c == copy2(f, policy_path, backup_path, io.backup_fails)
         IN  [fs |-> c.fs, backup |-> IF c.ok THEN "ok" ELSE "failed", raised |-> FALSE]
    ELSE [fs |-> f, backup |-> "none", raised |-> FALSE]

\* policy_write that writes only when asked to overwrite
policy_write_only_on_overwrite(f, policy_path, content, overwrite_existing, io) ==
    IF overwrite_existing
    THEN LET w == write_file(f, policy_path, content, io.write)
         IN  [fs |-> w.fs, write |-> IF w.ok THEN "ok" ELSE "failed", raised |-> FALSE]
    ELSE [fs |-> f, write |-> "none", raised |-> FALSE]

\* policy_write without the try/except around the write
policy_write_uncaught(f, policy_path, content, overwrite_existing, io) ==
    IF overwrite_existing \/ ~Exists(f, policy_path)
    THEN LET w == write_file(f, policy_path, content, io.write)
         IN  [fs |-> w.fs, write |-> IF w.ok THEN "ok" ELSE "failed", raised |-> ~w.ok]
    ELSE [fs |-> f, write |-> "none", raised |-> FALSE]

\* the write step. A failing write is caught: raised stays FALSE
policy_write(f, policy_path, content, overwrite_existing, io) ==
    IF overwrite_existing \/ ~Exists(f, policy_path)
    THEN LET w == write_file(f, policy_path, content, io.write)
         IN  [fs |-> w.fs, write |-> IF w.ok THEN "ok" ELSE "failed", raised |-> FALSE]
    ELSE [fs |-> f, write |-> "none", raised |-> FALSE]

\* create_folder_policy that takes every call as an overwriting one
create_folder_policy_overwriting(f, folder_path, investigation_label, study_label, workpackage, meta, overwrite_existing, t, io) ==
    LET policy_path == PolicyPath(folder_path)
        content == policy_content(investigation_label, study_label, workpackage, meta, t)
        b == policy_backup(f, policy_path, BackupPath(folder_path, t), TRUE, io)
        w == policy_write(b.fs, policy_path, content, TRUE, io)
    IN  [fs |-> w.fs, ret |-> policy_path, backup |-> b.backup, write |-> w.write,
         raised |-> FALSE]

\* create_folder_policy: returns the policy path; raised tells whether an
\* exception left it
create_folder_policy(f, folder_path, investigation_label, study_label, workpackage, meta, overwrite_existing, t, io) ==
    LET policy_path == PolicyPath(folder_path)
        content == policy_content(investigation_label, study_label, workpackage, meta, t)
    IN  IF Exists(f, policy_path) /\ ~overwrite_existing
        THEN [fs |-> f, ret |-> policy_path, backup |-> "none", write |-> "none",
              raised |-> FALSE]
        ELSE LET b == policy_backup(f, policy_path, BackupPath(folder_path, t),
                                    overwrite_existing, io)
                 w == policy_write(b.fs, policy_path, content, overwrite_existing, io)
             IN  IF b.raised
                 THEN [fs |-> b.fs, ret |-> << >>, backup |-> b.backup,
                       write |-> "none", raised |-> TRUE]
                 ELSE [fs |-> w.fs, ret |-> IF w.raised THEN << >> ELSE policy_path,
                       backup |-> b.backup, write |-> w.write, raised |-> w.raised]

(***************************************************************************)
(* Structure definitions: the value of a key is None, a list of names, a   *)
(* mapping (its items in insertion order) or a string                      *)
(***************************************************************************)
SNone == [kind |-> "none"]
SList(names) == [kind |-> "list", items |-> names]
SDict(items) == [kind |-> "dict", items |-> items]
SStr(text) == [kind |-> "str", text |-> text]

\* structure=None
NoStructure == [kind |-> "absent"]

\* the structure used when none is given
default_structure ==
    SDict(<< <<"raw", SNone>>, <<"processed", SNone>>, <<"metadata", SNone>> >>)

\* the structure taken as it is given, without the label prefix
apply_labels_unlabelled(structure, investigation_label, study_label) == structure

\* first-level keys get the label prefix when both labels are given
apply_labels(structure, investigation_label, study_label) ==
    IF Truthy(investigation_label) /\ Truthy(study_label)
    THEN SDict([i \in 1..Len(structure.items) |->
                  << investigation_label \o "-" \o study_label \o "_"
                        \o structure.items[i][1],
                     structure.items[i][2] >>])
    ELSE structure

\* a subfolder made without looking whether it exists
ensure_subfolder_unchecked(f, subfolder_path) == makedirs(f, subfolder_path, FALSE)

\* one subfolder: left alone when something exists at its path, else
\* os.makedirs (which raises when a file is in the way above it)
ensure_subfolder(f, subfolder_path) ==
    IF Exists(f, subfolder_path)
    THEN [ok |-> TRUE, fs |-> f]
    ELSE makedirs(f, subfolder_path, FALSE)

RECURSIVE create_subfolders(_, _, _)
RECURSIVE create_list_from(_, _, _, _)
RECURSIVE create_dict_from(_, _, _, _)

\* the loop over a list of names, from index i on
create_list_from(f, parent_path, names, i) ==
    IF i > Len(names) THEN [ok |-> TRUE, fs |-> f]
    ELSE LET m == ensure_subfolder(f, Join(parent_path, names[i]))
         IN  IF ~m.ok THEN m
             ELSE create_list_from(m.fs, parent_path, names, i + 1)

\* the loop over the items of a mapping, from index i on
create_dict_from(f, parent_path, items, i) ==
    IF i > Len(items) THEN [ok |-> TRUE, fs |-> f]
    ELSE LET subfolder_path == Join(parent_path, items[i][1])
             m == ensure_subfolder(f, subfolder_path)
         IN  IF ~m.ok THEN m
             ELSE LET r == create_subfolders(m.fs, subfolder_path, items[i][2])
                  IN  IF ~r.ok THEN r
                      ELSE create_dict_from(r.fs, parent_path, items, i + 1)

\* create_subfolders: ok is FALSE when a directory creation raised; the
\* directories created before it stay
create_subfolders(f, parent_path, struct) ==
    CASE struct.kind = "list" -> create_list_from(f, parent_path, struct.items, 1)
      [] struct.kind = "dict" -> create_dict_from(f, parent_path, struct.items, 1)
      [] OTHER -> [ok |-> TRUE, fs |-> f]

(***************************************************************************)
(* create_folder_structure                                                 *)
(***************************************************************************)
All(values) == \A i \in 1..Len(values) : Truthy(values[i])

investigation_folder(a) ==
    "i_" \o Str(a.workpackage) \o "_" \o Str(a.investigation_label)

\* the study folder named without the workpackage
study_folder_without_workpackage(a) ==
    "s_" \o Str(a.investigation_label) \o "-" \o Str(a.study_label)
         \o "_" \o Str(a.study_slug)

study_folder(a) ==
    "s_" \o Str(a.workpackage) \o "-" \o Str(a.investigation_label)
         \o "-" \o Str(a.study_label) \o "_" \o Str(a.study_slug)

\* the investigation folder is created when nothing exists at its path
ensure_investigation(f, investigation_path) ==
    IF Exists(f, investigation_path)
    THEN [ok |-> TRUE, fs |-> f]
    ELSE makedirs(f, investigation_path, TRUE)

\* main folder placed inside the investigation folder, which is created first
inside_investigation(f, a, name) ==
    LET investigation_path == Join(a.target_path, investigation_folder(a))
        m == ensure_investigation(f, investigation_path)
    IN  IF m.ok
        THEN [result |-> "ok", fs |-> m.fs, main |-> Join(investigation_path, name)]
        ELSE [result |-> "OSError", fs |-> m.fs, main |-> << >>]

ValueError(f) == [result |-> "ValueError", fs |-> f, main |-> << >>]

\* the default naming pattern with the investigation folder made in every call
default_main_folder_always_nested(f, a) ==
    IF ~All(<<a.investigation_label, a.study_label, a.study_slug>>)
    THEN ValueError(f)
    ELSE IF ~Truthy(a.workpackage)
    THEN ValueError(f)
    ELSE inside_investigation(f, a, study_folder(a))

\* the default naming pattern without the check of the workpackage
default_main_folder_any_workpackage(f, a) ==
    IF ~All(<<a.investigation_label, a.study_label, a.study_slug>>)
    THEN [result |-> "ValueError", fs |-> f, main |-> << >>]
    ELSE IF a.create_investigation_folder
    THEN inside_investigation(f, a, study_folder(a))
    ELSE [result |-> "ok", fs |-> f, main |-> Join(a.target_path, study_folder(a))]

\* the default naming pattern (no folder_name)
default_main_folder(f, a) ==
    IF ~All(<<a.investigation_label, a.study_label, a.study_slug>>)
    THEN ValueError(f)
    ELSE IF ~Truthy(a.workpackage)
    THEN ValueError(f)
    ELSE IF a.create_investigation_folder
    THEN inside_investigation(f, a, study_folder(a))
    ELSE [result |-> "ok", fs |-> f, main |-> Join(a.target_path, study_folder(a))]

\* a custom folder_name joined to the target as it is given
custom_main_folder_as_given(f, a) ==
    IF a.create_investigation_folder /\ ~(StartsWith(a.folder_name, "i_") /\ Contains(a.folder_name, "/"))
    THEN IF ~All(<<a.workpackage, a.investigation_label>>)
         THEN ValueError(f)
         ELSE inside_investigation(f, a, a.folder_name)
    ELSE [result |-> "ok", fs |-> f, main |-> Join(a.target_path, a.folder_name)]

\* a custom folder_name
custom_main_folder(f, a) ==
    LET folder_name == a.folder_name
        with_path == StartsWith(folder_name, "i_") /\ Contains(folder_name, "/")
        study_folder_name == Last(Split(folder_name, "/"))
    IN  IF a.create_investigation_folder
        THEN IF with_path
             THEN [result |-> "ok", fs |-> f, main |-> Join(a.target_path, folder_name)]
             ELSE IF ~All(<<a.workpackage, a.investigation_label>>)
             THEN ValueError(f)
             ELSE inside_investigation(f, a, folder_name)
        ELSE IF with_path
             THEN IF ~StartsWith(study_folder_name, "s_" \o Str(a.workpackage) \o "-")
                  THEN IF ~All(<<a.workpackage, a.investigation_label,
                                 a.study_label, a.study_slug>>)
                       THEN ValueError(f)
                       ELSE [result |-> "ok", fs |-> f,
                             main |-> Join(a.target_path, study_folder(a))]
                  ELSE [result |-> "ok", fs |-> f,
                        main |-> Join(a.target_path, study_folder_name)]
             ELSE [result |-> "ok", fs |-> f, main |-> Join(a.target_path, folder_name)]

\* main_folder_path, with the investigation folder created on the way
main_folder(f, a) ==
    IF a.folder_name = None THEN default_main_folder(f, a) ELSE custom_main_folder(f, a)

\* the main folder is created when nothing exists at its path
ensure_main(f, main_folder_path) ==
    IF Exists(f, main_folder_path)
    THEN [ok |-> TRUE, fs |-> f]
    ELSE makedirs(f, main_folder_path, TRUE)

\* the structure that is materialized
resolved_structure(a) ==
    apply_labels(IF a.structure = NoStructure THEN default_structure ELSE a.structure,
                 a.investigation_label, a.study_label)

Raised(f, exception) ==
    [fs |-> f, result |-> exception, ret |-> << >>, backup |-> "none", write |-> "none"]

\* no check of the target at all
target_unchecked(f, a) == TRUE

\* the check made before anything else
target_exists(f, a) == Exists(f, a.target_path)

\* the part of create_folder_structure before the policy file: the target
\* check, the main folder and the structure below it. result is "ok" or
\* the exception raised, main the main folder path
materialize(f, a) ==
    IF ~target_exists(f, a)
    THEN [fs |-> f, result |-> "FileNotFoundError", main |-> << >>]
    ELSE
    LET n == main_folder(f, a) IN
    IF n.result # "ok" THEN n
    ELSE
    LET m == ensure_main(n.fs, n.main) IN
    IF ~m.ok THEN [fs |-> m.fs, result |-> "OSError", main |-> << >>]
    ELSE
    LET s == create_subfolders(m.fs, n.main, resolved_structure(a)) IN
    IF ~s.ok THEN [fs |-> s.fs, result |-> "OSError", main |-> << >>]
    ELSE [fs |-> s.fs, result |-> "ok", main |-> n.main]

\* the policy file written although the creation of the directories raised
finish_policy_despite_abort(m, a, run, t, io) ==
    LET n == main_folder(m.fs, a)
    IN  IF n.result # "ok" \/ ~IsDir(n.fs, n.main) THEN Raised(m.fs, m.result)
        ELSE LET p == create_folder_policy(n.fs, n.main, a.investigation_label,
                                           a.study_label, a.workpackage, run.meta,
                                           run.overwrite_existing, t, io)
             IN  [fs |-> p.fs, result |-> m.result,
                  ret |-> IF m.result = "ok" THEN n.main ELSE << >>,
                  backup |-> p.backup, write |-> p.write]

\* the rest of it, on the outcome m of materialize: the policy file is
\* written last and the main folder path returned
finish(m, a, run, t, io) ==
    IF m.result # "ok" THEN Raised(m.fs, m.result)
    ELSE
    LET p == create_folder_policy(m.fs, m.main, a.investigation_label, a.study_label,
                                  a.workpackage, run.meta, run.overwrite_existing, t, io)
    IN  [fs |-> p.fs, result |-> IF p.raised THEN "OSError" ELSE "ok",
         ret |-> IF p.raised THEN << >> ELSE m.main,
         backup |-> p.backup, write |-> p.write]

\* create_folder_structure(a) run on filesystem f at time t; run holds
\* overwrite_existing and the policy metadata, io what the I/O of the policy
\* file does. result is "ok" or the exception raised, ret the returned path
create_folder_structure(f, a, run, t, io) == finish(materialize(f, a), a, run, t, io)

(***************************************************************************)
(* Inputs                                                                  *)
(***************************************************************************)
\* the target directory that exists, and one that does not
TargetDir == <<"tmp">>
MissingDir == <<"nonexistent", "path">>

custom_structure ==
    SDict(<< <<"data", SDict(<< <<"raw", SNone>>,
                                <<"processed", SList(<<"batch1", "batch2">>)>> >>)>>,
             <<"docs", SList(<<"reports", "protocols">>)>> >>)

\* a structure with string values: under a key with a dot and under a key
\* without one
described_structure ==
    SDict(<< <<"notes.txt", SStr("Notes on the study")>>,
             <<"protocols", SStr("Protocols of the study")>>,
             <<"data", SDict(<< <<"samples.csv", SStr("id,name")>>,
                                <<"raw", SStr("Raw data")>> >>)>> >>)

Structures == {NoStructure, custom_structure, described_structure}

FolderNames == {None, "custom_project_folder", "i_WP1_I1/s_I1-S2_my-study",
                "i_WP1_I1/s_WP1-I1-S2_my-study"}

\* every combination of the naming arguments, present, None or empty
AllArgs ==
    [target_path : {TargetDir, MissingDir},
     folder_name : FolderNames,
     investigation_label : {None, "", "I1"},
     study_label : {None, "S2"},
     study_slug : {None, "my-study"},
     workpackage : {None, "", "WP1"},
     structure : Structures,
     create_investigation_folder : BOOLEAN]

\* complete naming arguments on an existing target
CoreArgs ==
    {a \in AllArgs :
        /\ a.target_path = TargetDir
        /\ a.folder_name \in {None, "custom_project_folder"}
        /\ a.folder_name # None => ~a.create_investigation_folder
        /\ a.structure = IF a.create_investigation_folder
                         THEN custom_structure ELSE NoStructure
        /\ a.investigation_label = "I1" /\ a.study_label = "S2"
        /\ a.study_slug = "my-study" /\ a.workpackage = "WP1"}

owner_user ==
    [name |-> "Alice (alice@example.org)", role |-> "Owner",
     access_level |-> "READ-WRITE-SHARE", expiration |-> "PERMANENT"]

reader_user ==
    [name |-> "Eve", role |-> "Reader", access_level |-> "READ",
     expiration |-> "PERMANENT"]

\* the policy metadata of a call
Metas ==
    { [study_title |-> "First Title", sensitivity_level |-> "INTERNAL",
       pi_name |-> "Jane", pi_email |-> "jane@example.org",
       authorized_users |-> <<owner_user, reader_user>>],
      [study_title |-> None, sensitivity_level |-> None,
       pi_name |-> None, pi_email |-> None, authorized_users |-> << >>] }

Runs == [overwrite_existing : BOOLEAN, meta : Metas]

\* what the I/O on the policy file does
IOs == [backup_fails : BOOLEAN, write : {"ok", "open_failed", "write_failed"}]

\* an operation can fail only in a call that attempts it: the copy when the
\* policy file exists and is to be overwritten, the write when the file is
\* missing or to be overwritten, neither when the policy step is not reached
CanFail(reached, f, policy_path, overwrite_existing, io) ==
    /\ io.backup_fails => (reached /\ Exists(f, policy_path) /\ overwrite_existing)
    /\ io.write # "ok" => (reached /\ (overwrite_existing \/ ~Exists(f, policy_path)))

(***************************************************************************)
(* State                                                                   *)
(***************************************************************************)
BaseFs == [p \in {<< >>, TargetDir} |-> Dir]

\* the last call: its inputs, whether a policy file existed before it, what
\* it returned or raised and what became of the backup and the write;
\* touched: a user changed the tree since; rerun: it repeated, on an
\* untouched tree, a successful run with the same arguments; previous:
\* how the call before it ended
NoCall ==
    [op |-> "none", run |-> CHOOSE r \in Runs : TRUE, existed |-> FALSE,
     result |-> "none", ret |-> << >>,
     backup |-> "none", write |-> "none", touched |-> FALSE, rerun |-> FALSE,
     previous |-> "none"]

\* the main folder the naming arguments lead to, or the target when they
\* do not lead to one
MainOf(a) ==
    LET n == main_folder(BaseFs, a)
    IN  IF n.result = "ok" THEN n.main ELSE a.target_path

NoFiles == [p \in {} |-> Dir]

\* input and output belong to the calls of the functions that touch no
\* file: the value passed in and the value returned
NoInput == [kind |-> "none"]

NoOutput == [op |-> "none"]

InitWith(argset) ==
    /\ fs = BaseFs
    /\ now = 0
    /\ args \in argset
    /\ call = NoCall
    /\ userAdded = NoFiles
    /\ ncalls = 0
    /\ input = NoInput
    /\ output = NoOutput

Init == InitWith(CoreArgs)

InitArgs == InitWith(AllArgs)

(***************************************************************************)
(* Actions                                                                 *)
(***************************************************************************)
\* a run of create_folder_structure with the naming arguments of args
CallStructure ==
    /\ ncalls < MaxCalls
    /\ \E m \in {materialize(fs, args)}, existed \in {Exists(fs, PolicyPath(MainOf(args)))} :
       \E run \in Runs, io \in IOs :
         /\ CanFail(m.result = "ok", m.fs, PolicyPath(m.main), run.overwrite_existing, io)
         /\ \E r \in {finish(m, args, run, now, io)} :
             /\ fs' = r.fs
             /\ call' = [op |-> "structure", run |-> run, existed |-> existed,
                         result |-> r.result, ret |-> r.ret,
                         backup |-> r.backup, write |-> r.write, touched |-> FALSE,
                         rerun |-> /\ call.op = "structure" /\ call.result = "ok"
                                   /\ call.run = run /\ ~call.touched,
                         previous |-> call.result]
    /\ ncalls' = ncalls + 1
    /\ UNCHANGED <<now, args, userAdded, input, output>>

\* a direct call of create_folder_policy on the main folder
CallPolicy ==
    /\ ncalls < MaxCalls
    /\ \E folder \in {MainOf(args)} :
       \E existed \in {Exists(fs, PolicyPath(folder))} :
       \E run \in Runs, io \in IOs :
         /\ CanFail(TRUE, fs, PolicyPath(folder), run.overwrite_existing, io)
         /\ \E r \in {create_folder_policy(fs, folder, args.investigation_label,
                                           args.study_label, args.workpackage,
                                           run.meta, run.overwrite_existing, now, io)} :
             /\ fs' = r.fs
             /\ call' = [op |-> "policy", run |-> run, existed |-> existed,
                         result |-> IF r.raised THEN "OSError" ELSE "ok",
                         ret |-> r.ret,
                         backup |-> r.backup, write |-> r.write, touched |-> FALSE,
                         rerun |-> FALSE, previous |-> call.result]
    /\ ncalls' = ncalls + 1
    /\ UNCHANGED <<now, args, userAdded, input, output>>

\* what a user may put under the main folder: a folder of their own with a
\* data file in it inside the first subfolder, a policy file, a file with a
\* backup's name. Each is the set of paths added, the topmost first
UserNodes(a) ==
    LET main == MainOf(a)
        first == Join(main, resolved_structure(a).items[1][1])
        user_folder == Append(first, "user_created_folder")
    IN  { << <<user_folder, Dir>>,
             <<Append(user_folder, "important_data.txt"), File(<<"Important data">>)>> >>,
          << <<PolicyPath(main), File(<<"Initial policy content">>)>> >>,
          << <<BackupPath(main, 0), File(<<"kept by the user">>)>> >> }

\* the filesystem with the paths of an addition put into it
RECURSIVE PutAll(_, _, _)
PutAll(f, nodes, i) ==
    IF i > Len(nodes) THEN f ELSE PutAll(Put(f, nodes[i][1], nodes[i][2]), nodes, i + 1)

\* a user adds something where nothing exists yet, making the directories
\* above it where they are missing; userAdded keeps what the user added
UserAdd ==
    /\ \E additions \in {UserNodes(args)} :
         /\ Cardinality({n \in additions : n[1][1] \in DOMAIN userAdded}) < MaxUserAdds
         /\ \E n \in additions :
            \E above \in {makedirs(fs, Parent(n[1][1]), TRUE)} :
              /\ ~Exists(fs, n[1][1])
              /\ above.ok
              /\ fs' = PutAll(above.fs, n, 1)
              /\ userAdded' = PutAll(userAdded, n, 1)
    /\ call' = [call EXCEPT !.touched = TRUE]
    /\ UNCHANGED <<now, args, ncalls, input, output>>

\* a second passes
Tick ==
    /\ now < MaxClock
    /\ now' = now + 1
    /\ UNCHANGED <<fs, args, call, userAdded, ncalls, input, output>>

Next == CallStructure \/ CallPolicy \/ UserAdd \/ Tick

Spec == Init /\ [][Next]_vars

\* the specification over every combination of naming arguments
NextArgs == CallStructure

SpecArgs == InitArgs /\ [][NextArgs]_vars

(***************************************************************************)
(* Calls of the user functions, which touch no file                        *)
(***************************************************************************)
\* the longest list of user records passed to the filter
MaxUsers == 2
\* the longest list of owners, of contributors and of readers in a study
MaxListed == 2

\* the sequences over a set up to a length
RECURSIVE SeqsUpTo(_, _)
SeqsUpTo(S, n) ==
    IF n = 0 THEN {<< >>}
    ELSE LET shorter == SeqsUpTo(S, n - 1)
         IN  shorter \cup {Append(q, x) : q \in {r \in shorter : Len(r) = n - 1}, x \in S}

\* user records the filter keeps: a target role in any case with the
\* READ-WRITE-SHARE level in any case, whatever other keys there are
KeptUsers ==
    { [name |-> "Alice", role |-> "Owner", access_level |-> "READ-WRITE-SHARE",
       expiration |-> "PERMANENT"],
      [name |-> "Bob", role |-> "PI", access_level |-> "read-write-share"],
      [name |-> "Carol", role |-> "principal_investigator",
       access_level |-> "Read-Write-Share", expiration |-> "2030-01-01"],
      [role |-> "Principal Investigator", access_level |-> "READ-WRITE-SHARE"] }

\* user records the filter drops: another level, another role, no role, no
\* level, a role that only contains a target role
DroppedUsers ==
    { [name |-> "Dan", role |-> "Owner", access_level |-> "READ-WRITE"],
      [name |-> "Eve", role |-> "Reader", access_level |-> "READ-WRITE-SHARE"],
      [name |-> "Fay", access_level |-> "READ-WRITE-SHARE"],
      [name |-> "Gus", role |-> "owner"],
      [name |-> "Hal", role |-> "Co-Owner", access_level |-> "READ-WRITE-SHARE"] }

OwnerEntries ==
    { "John Doe (john@example.org)", "Jane Smith",
      "Jane Smithson  ( smithson@example.org )" }

ContributorEntries == { "Bob Wilson (bob@example.org)" }

ReaderEntries == { "Eve Davis" }

\* name and email of the principal investigator
PrincipalInvestigators ==
    { <<None, None>>, <<"Jane Smith", None>>, <<"Jane Smith", "jane@example.org">>,
      <<"JOHN DOE", "john@example.org">>, <<"Ann Lee", "ann@example.org">>,
      <<"Bob Wilson", "bob@example.org">>, <<"", "nobody@example.org">> }

\* a study record; a key is left out when it has nothing to hold
StudyRecord(owners, contributors, readers, pi) ==
    LET keys == (IF owners = << >> THEN {} ELSE {"owners"})
                \cup (IF contributors = << >> THEN {} ELSE {"contributors"})
                \cup (IF readers = << >> THEN {} ELSE {"readers"})
                \cup (IF pi[1] = None THEN {} ELSE {"effective_principal_investigator_name"})
                \cup (IF pi[2] = None THEN {} ELSE {"effective_principal_investigator_email"})
    IN  [k \in keys |->
           CASE k = "owners" -> owners
             [] k = "contributors" -> contributors
             [] k = "readers" -> readers
             [] k = "effective_principal_investigator_name" -> pi[1]
             [] OTHER -> pi[2]]

Studies ==
    { StudyRecord(o, c, r, pi) :
        o \in SeqsUpTo(OwnerEntries, MaxListed),
        c \in SeqsUpTo(ContributorEntries, MaxListed),
        r \in SeqsUpTo(ReaderEntries, MaxListed),
        pi \in PrincipalInvestigators }

UserInputs ==
    {[kind |-> "users", users |-> u] : u \in SeqsUpTo(KeptUsers \cup DroppedUsers, MaxUsers)}
    \cup {[kind |-> "study", study |-> s] : s \in Studies}

InitUsers ==
    /\ fs = BaseFs
    /\ now = 0
    /\ args = CHOOSE a \in CoreArgs : a.folder_name = None /\ a.structure = NoStructure
    /\ call = NoCall
    /\ userAdded = NoFiles
    /\ ncalls = 0
    /\ input \in UserInputs
    /\ output = NoOutput

\* parse_users_from_study_json(study)
ParseUsers ==
    /\ input.kind = "study" /\ output.op = "none"
    /\ output' = [op |-> "parse", given |-> input.study,
                  value |-> parse_users_from_study_json(input.study)]
    /\ UNCHANGED <<fs, now, args, call, userAdded, ncalls, input>>

\* filter_owners_and_pis_with_write_share_access, on a list of user records
\* or on what parse_users_from_study_json returned
FilterUsers ==
    /\ \/ input.kind = "users" /\ output.op = "none"
       \/ output.op = "parse"
    /\ \E given \in {IF output.op = "parse" THEN output.value ELSE input.users} :
         output' = [op |-> IF output.op = "parse" THEN "parse_filter" ELSE "filter",
                    given |-> given,
                    value |-> filter_owners_and_pis_with_write_share_access(given)]
    /\ UNCHANGED <<fs, now, args, call, userAdded, ncalls, input>>

NextUsers == ParseUsers \/ FilterUsers

SpecUsers == InitUsers /\ [][NextUsers]_vars

(***************************************************************************)
(* main: the command line                                                  *)
(***************************************************************************)
\* str.replace(old, new) for a one-character old
RECURSIVE Replace(_, _, _)
Replace(s, old, new) ==
    IF s = "" THEN ""
    ELSE (IF SubSeq(s, 1, 1) = old THEN new ELSE SubSeq(s, 1, 1))
             \o Replace(SubSeq(s, 2, Len(s)), old, new)

\* the characters the pattern [^a-z0-9-] does not match
SlugChars == {l[2] : l \in Letters} \cup {Digit(n) : n \in 0..9} \cup {"-"}

\* re.sub of the pattern by "": only the characters of kept stay
RECURSIVE RemoveOutside(_, _)
RemoveOutside(s, kept) ==
    IF s = "" THEN ""
    ELSE (IF SubSeq(s, 1, 1) \in kept THEN SubSeq(s, 1, 1) ELSE "")
             \o RemoveOutside(SubSeq(s, 2, Len(s)), kept)

\* the slug made from a title
slug_of_title(study_title) ==
    RemoveOutside(Replace(Lower(study_title), " ", "-"), SlugChars)

\* the slug of the command-line mode
cli_study_slug(study_title, study_label) ==
    IF Truthy(study_title) THEN slug_of_title(study_title) ELSE Lower(study_label)

sensitivity_map ==
    [level \in {"PUBLIC", "INTERNAL", "CONFIDENTIAL", "RESTRICTED"} |-> level]

\* the command line as argparse leaves it when no option is given;
\* study_config holds the loaded content of the file named, if one is
NoArgv ==
    [study_config |-> << >>, investigation |-> None, study |-> None,
     study_title |-> None, workpackage |-> None, target |-> TargetDir,
     folder_name |-> None, sensitivity |-> None, pi_name |-> None,
     pi_email |-> None, overwrite |-> FALSE, create_investigation_folder |-> FALSE]

\* the arguments of create_folder_structure taken from the study
\* configuration, options of the command line first
config_arguments(argv, study_data) ==
    LET security_level == Upper(Get(study_data, "security_level", ""))
    IN  [parsed |-> TRUE,
         a |-> [target_path |-> argv.target,
                folder_name |-> OrElse(argv.folder_name, Get(study_data, "folder_name", None)),
                investigation_label |->
                    OrElse(argv.investigation,
                           Get(study_data, "investigation_accession_code", None)),
                study_label |-> OrElse(argv.study, Get(study_data, "accession_code", None)),
                study_slug |-> Get(study_data, "slug", None),
                workpackage |->
                    OrElse(argv.workpackage,
                           Get(study_data, "investigation_work_package", None)),
                structure |-> NoStructure,
                create_investigation_folder |-> argv.create_investigation_folder],
         meta |-> [study_title |-> OrElse(argv.study_title, Get(study_data, "title", None)),
                   sensitivity_level |->
                       OrElse(argv.sensitivity,
                              Get(sensitivity_map, security_level, None)),
                   pi_name |->
                       OrElse(argv.pi_name,
                              Get(study_data, "effective_principal_investigator_name", None)),
                   pi_email |->
                       OrElse(argv.pi_email,
                              Get(study_data, "effective_principal_investigator_email", None)),
                   authorized_users |-> parse_users_from_study_json(study_data)]]

\* the arguments taken from the command line alone; parser.error leaves
\* the program when a label or the workpackage is missing
cli_arguments(argv) ==
    IF ~All(<<argv.investigation, argv.study, argv.workpackage>>)
    THEN [parsed |-> FALSE]
    ELSE [parsed |-> TRUE,
          a |-> [target_path |-> argv.target,
                 folder_name |-> argv.folder_name,
                 investigation_label |-> argv.investigation,
                 study_label |-> argv.study,
                 study_slug |-> cli_study_slug(argv.study_title, argv.study),
                 workpackage |-> argv.workpackage,
                 structure |-> NoStructure,
                 create_investigation_folder |-> argv.create_investigation_folder],
          meta |-> [study_title |-> argv.study_title,
                    sensitivity_level |-> argv.sensitivity,
                    pi_name |-> argv.pi_name, pi_email |-> argv.pi_email,
                    authorized_users |-> << >>]]

main_arguments(argv) ==
    IF argv.study_config # << >>
    THEN config_arguments(argv, argv.study_config[1])
    ELSE cli_arguments(argv)

\* the titles given on the command line or in the configuration
Titles == {"My Test Study", "RNA-Seq: Leaf (2024)!", "my-test-study"}

\* the study configurations: title and slug present or absent
StudyConfigs ==
    { LET base == [investigation_work_package |-> "WP1",
                   investigation_accession_code |-> "I1",
                   accession_code |-> "S2", security_level |-> "internal",
                   owners |-> <<"John Doe (john@example.org)">>]
          t == IF title = None THEN base ELSE base @@ [title |-> title]
      IN  IF slug = None THEN t ELSE t @@ [slug |-> slug] :
        title \in {None, "My Test Study"}, slug \in {None, "given-slug"} }

\* the command lines: the labels alone, or a study configuration with or
\* without options that override it
Argvs ==
    { [NoArgv EXCEPT !.investigation = inv, !.study = study, !.workpackage = wp,
                     !.study_title = title, !.folder_name = folder,
                     !.overwrite = overwrite, !.create_investigation_folder = nested] :
        inv \in {None, "I1"}, study \in {None, "S2"}, wp \in {None, "WP1"},
        title \in {None, ""} \cup Titles, folder \in {None, "custom_project_folder"},
        overwrite \in BOOLEAN, nested \in BOOLEAN }
    \cup
    { [NoArgv EXCEPT !.study_config = <<config>>, !.study_title = title,
                     !.overwrite = overwrite, !.create_investigation_folder = nested] :
        config \in StudyConfigs, title \in {None, "RNA-Seq: Leaf (2024)!"},
        overwrite \in BOOLEAN, nested \in BOOLEAN }

\* the arguments before the command line is read
NoArgs ==
    [target_path |-> TargetDir, folder_name |-> None, investigation_label |-> None,
     study_label |-> None, study_slug |-> None, workpackage |-> None,
     structure |-> NoStructure, create_investigation_folder |-> FALSE]

InitMain ==
    /\ fs = BaseFs
    /\ now = 0
    /\ args = NoArgs
    /\ call = NoCall
    /\ userAdded = NoFiles
    /\ ncalls = 0
    /\ input \in {[kind |-> "argv", argv |-> argv] : argv \in Argvs}
    /\ output = NoOutput

\* a run of main on the command line of input: exit is the exit status,
\* 2 from parser.error, 1 when create_folder_structure raised
CallMain ==
    /\ input.kind = "argv"
    /\ ncalls < MaxCalls
    /\ \E p \in {main_arguments(input.argv)} :
         \/ /\ ~p.parsed
            /\ output' = [op |-> "main", parsed |-> FALSE, exit |-> 2]
            /\ UNCHANGED <<fs, args, call>>
         \/ /\ p.parsed
            /\ \E m \in {materialize(fs, p.a)} :
               \E existed \in {Exists(fs, PolicyPath(MainOf(p.a)))} :
               \E run \in {[overwrite_existing |-> input.argv.overwrite, meta |-> p.meta]} :
               \E io \in IOs :
                 /\ CanFail(m.result = "ok", m.fs, PolicyPath(m.main),
                            run.overwrite_existing, io)
                 /\ \E r \in {finish(m, p.a, run, now, io)} :
                      /\ fs' = r.fs
                      /\ args' = p.a
                      /\ call' = [op |-> "main", run |-> run, existed |-> existed,
                                  result |-> r.result, ret |-> r.ret,
                                  backup |-> r.backup, write |-> r.write,
                                  touched |-> FALSE, rerun |-> FALSE,
                                  previous |-> call.result]
                      /\ output' = [op |-> "main", parsed |-> TRUE,
                                    exit |-> IF r.result = "ok" THEN 0 ELSE 1]
    /\ ncalls' = ncalls + 1
    /\ UNCHANGED <<now, userAdded, input>>

NextMain == CallMain

SpecMain == InitMain /\ [][NextMain]_vars

(***************************************************************************)
(* ISADirectoryCreator                                                     *)
(***************************************************************************)
\* a file that exists is kept as it is
write_text_if_absent(f, path, text) ==
    IF IsFile(f, path) THEN [ok |-> TRUE, fs |-> f]
    ELSE write_file(f, path, <<text>>, "ok")

\* with open(path, "w") as file: file.write(text)
write_text(f, path, text) == write_file(f, path, <<text>>, "ok")

has_readme(items) == \E i \in 1..Len(items) : items[i][1] = "_readme"

\* value["_readme"]: the value of the last item with that key
readme_of(items) ==
    items[CHOOSE i \in 1..Len(items) :
             /\ items[i][1] = "_readme"
             /\ \A j \in (i + 1)..Len(items) : items[j][1] # "_readme"][2].text

structure_without_readme(items) == SelectSeq(items, LAMBDA item : item[1] # "_readme")

\* a directory and the README.md written into it
described_directory(f, current_path, text) ==
    LET m == makedirs(f, current_path, TRUE)
    IN  IF ~m.ok THEN m ELSE write_text(m.fs, Append(current_path, "README.md"), text)

RECURSIVE create_directory_structure(_, _, _)
RECURSIVE create_item(_, _, _, _)
RECURSIVE create_items_from(_, _, _, _)

\* one item of the mapping: a mapping is a directory with contents, a
\* string a file (a dot in the key) or a directory with a description,
\* None an empty directory; any other value is passed over
create_item(f, base_path, key, value) ==
    LET current_path == Join(base_path, key)
    IN  CASE value.kind = "dict" ->
               LET m == makedirs(f, current_path, TRUE)
               IN  IF ~m.ok THEN m
                   ELSE IF has_readme(value.items)
                   THEN LET w == write_text(m.fs, Append(current_path, "README.md"),
                                            readme_of(value.items))
                        IN  IF ~w.ok THEN w
                            ELSE create_directory_structure(
                                     w.fs, current_path,
                                     SDict(structure_without_readme(value.items)))
                   ELSE create_directory_structure(m.fs, current_path, value)
          [] value.kind = "str" ->
               IF Contains(key, ".")
               THEN write_text(f, current_path, value.text)
               ELSE described_directory(f, current_path, value.text)
          [] value.kind = "none" -> makedirs(f, current_path, TRUE)
          [] OTHER -> [ok |-> TRUE, fs |-> f]

\* the loop over the items of the mapping, from index i on
create_items_from(f, base_path, items, i) ==
    IF i > Len(items) THEN [ok |-> TRUE, fs |-> f]
    ELSE LET r == create_item(f, base_path, items[i][1], items[i][2])
         IN  IF ~r.ok THEN r ELSE create_items_from(r.fs, base_path, items, i + 1)

\* create_directory_structure: ok is FALSE when a call raised; what was
\* created before it stays
create_directory_structure(f, base_path, structure) ==
    LET m == makedirs(f, base_path, TRUE)
    IN  IF ~m.ok THEN m ELSE create_items_from(m.fs, base_path, structure.items, 1)

RECURSIVE Indent(_)
\* "  " * level
Indent(level) == IF level = 0 THEN "" ELSE "  " \o Indent(level - 1)

RECURSIVE generate_structure_overview(_, _)
RECURSIVE overview_from(_, _, _)

\* the lines the overview has for the items from index i on (the grave
\* accents the code puts around the key are left out: a string of this
\* module cannot hold them)
overview_from(items, level, i) ==
    IF i > Len(items) THEN << >>
    ELSE LET key == items[i][1]
             value == items[i][2]
             note == CASE value.kind = "str" /\ ~Contains(key, ".")
                              -> " - Directory with README"
                       [] Contains(key, ".") -> " - File"
                       [] value.kind = "dict"
                              -> " - Directory"
                                   \o (IF has_readme(value.items) THEN " with README" ELSE "")
                       [] OTHER -> ""
         IN  (IF key = "_readme" THEN << >>
              ELSE <<Indent(level) \o "- " \o key \o note>>
                     \o (IF value.kind = "dict"
                         THEN generate_structure_overview(value, level + 1)
                         ELSE << >>))
             \o overview_from(items, level, i + 1)

generate_structure_overview(structure, level) == overview_from(structure.items, level, 1)

\* the README.md of the whole project, written into the target
add_project_readme(f, creator, t) ==
    LET readme_content ==
            << "# " \o creator.investigation_label,
               "ISA model project generated on " \o Today(t) \o ".",
               "## Investigation", creator.investigation_label,
               "## Study", creator.study_label,
               "## Assay", creator.assay_label,
               "## Structure Overview" >>
            \o generate_structure_overview(creator.structure, 0)
    IN  write_file(f, Append(creator.target_path, "README.md"), readme_content, "ok")

\* execute, on the structure parse_yaml_file loaded
execute(f, creator, t) ==
    LET r == create_directory_structure(f, creator.target_path, creator.structure)
    IN  IF ~r.ok THEN r ELSE add_project_readme(r.fs, creator, t)

\* the structures: a file in a directory with a README and a file at the
\* top, with either content, and the same with a _readme at the top
FileContents == {"first content", "second content"}

isa_items(content) ==
    << <<"data", SDict(<< <<"_readme", SStr("About the data")>>,
                          <<"notes.txt", SStr(content)>>,
                          <<"raw", SNone>> >>)>>,
       <<"docs", SStr("Documentation")>>,
       <<"config.yaml", SStr(content)>> >>

\* a structure with an entry whose value is a list of names
isa_list_structure ==
    SDict(<< <<"samples", SList(<<"batch1", "batch2">>)>>, <<"results", SNone>> >>)

ISAStructures ==
    {SDict(isa_items(content)) : content \in FileContents}
    \cup {SDict(<< <<"_readme", SStr("About the project")>> >> \o isa_items(content)) :
            content \in FileContents}
    \cup {isa_list_structure}

\* the targets: a directory that exists and a location that does not
ISATargets == {TargetDir, MissingDir}

\* the target of the runs
ISATarget == input.target_path

\* the creator with the labels the command line has by default
Creator(target_path, structure) ==
    [target_path |-> target_path, investigation_label |-> "My Investigation",
     study_label |-> "My Study", assay_label |-> "My Assay", structure |-> structure]

InitISA ==
    /\ fs = BaseFs
    /\ now = 0
    /\ args = NoArgs
    /\ call = NoCall
    /\ userAdded = NoFiles
    /\ ncalls = 0
    /\ input \in {[kind |-> "isa", target_path |-> target] : target \in ISATargets}
    /\ output = NoOutput

\* the paths a structure names below base_path: its keys, and the
\* README.md of each directory it describes
RECURSIVE NamedByISA(_, _)
NamedByISA(base_path, items) ==
    UNION { LET key == items[i][1]
                value == items[i][2]
                current_path == Join(base_path, key)
            IN  {current_path}
                \cup (IF value.kind = "dict"
                      THEN NamedByISA(current_path, value.items)
                      ELSE {})
                \cup (IF \/ value.kind = "str" /\ ~Contains(key, ".")
                         \/ value.kind = "dict" /\ has_readme(value.items)
                      THEN {Append(current_path, "README.md")}
                      ELSE {}) : i \in 1..Len(items) }

\* the record of a run: the structure, whether it ended without raising,
\* the structures of the runs before it and every path named so far
Ran(op, structure, ok, named) ==
    [op |-> op, structure |-> structure, ok |-> ok,
     earlier |-> IF output.op = "none" THEN << >>
                 ELSE Append(output.earlier, output.structure),
     named |-> named \cup (IF output.op = "none" THEN {} ELSE output.named)]

\* a call of create_directory_structure on the target
CallCreateDirectoryStructure ==
    /\ input.kind = "isa"
    /\ ncalls < MaxCalls
    /\ \E structure \in ISAStructures :
       \E r \in {create_directory_structure(fs, ISATarget, structure)} :
         /\ fs' = r.fs
         /\ output' = Ran("create", structure, r.ok, NamedByISA(ISATarget, structure.items))
    /\ ncalls' = ncalls + 1
    /\ UNCHANGED <<now, args, call, userAdded, input>>

\* a run of execute
CallExecute ==
    /\ input.kind = "isa"
    /\ ncalls < MaxCalls
    /\ \E structure \in ISAStructures :
       \E r \in {execute(fs, Creator(ISATarget, structure), now)} :
         /\ fs' = r.fs
         /\ output' = Ran("execute", structure, r.ok,
                          NamedByISA(ISATarget, structure.items)
                              \cup {Append(ISATarget, "README.md")})
    /\ ncalls' = ncalls + 1
    /\ UNCHANGED <<now, args, call, userAdded, input>>

\* the files a user may create by hand: one next to notes.txt, a README.md
\* where the structure describes the directory, a README.md where it does
\* not, a README.md in the target itself
ManualFiles ==
    { <<Join(ISATarget, "data/manual_notes.txt"), File(<<"written by hand">>)>>,
      <<Join(ISATarget, "data/README.md"), File(<<"my own readme">>)>>,
      <<Join(ISATarget, "data/raw/README.md"), File(<<"about the raw data">>)>>,
      <<Join(ISATarget, "README.md"), File(<<"my project notes">>)>> }

\* a user creates a file, in a directory made when it is missing, or
\* replaces the content of a file that exists
ManualAdd ==
    /\ input.kind = "isa"
    /\ Cardinality(DOMAIN userAdded) < MaxUserAdds
    /\ \E n \in ManualFiles :
       \E above \in {makedirs(fs, Parent(n[1]), TRUE)} :
         /\ ~IsDir(fs, n[1])
         /\ above.ok
         /\ fs' = Put(above.fs, n[1], n[2])
         /\ userAdded' = Put(userAdded, n[1], n[2])
    /\ UNCHANGED <<now, args, call, ncalls, input, output>>

NextISA == CallCreateDirectoryStructure \/ CallExecute \/ ManualAdd

SpecISA == InitISA /\ [][NextISA]_vars

TypeOK ==
    /\ now \in 0..MaxClock
    /\ ncalls \in 0..MaxCalls
    /\ \A p \in DOMAIN fs : fs[p].kind \in {"dir", "file"}

(***************************************************************************)
(* What the properties speak of                                            *)
(***************************************************************************)
Main == MainOf(args)

\* the last step was a call of the program
CallStep == ncalls' # ncalls

\* the last call reached its policy step
PolicyStepTaken ==
    \/ call.op = "policy"
    \/ call.op = "structure" /\ call.result = "ok"

RECURSIVE NamedBelow(_, _)
\* the paths a structure names below parent
NamedBelow(parent, struct) ==
    CASE struct.kind = "list" ->
           {Join(parent, struct.items[i]) : i \in 1..Len(struct.items)}
      [] struct.kind = "dict" ->
           UNION {{Join(parent, struct.items[i][1])}
                    \cup NamedBelow(Join(parent, struct.items[i][1]), struct.items[i][2])
                  : i \in 1..Len(struct.items)}
      [] OTHER -> {}

\* the paths the structure definition of the arguments names
NamedPaths == NamedBelow(Main, resolved_structure(args))

DirSet(f) == {p \in DOMAIN f : f[p].kind = "dir"}

\* the backup files of the policy file in the main folder
Backups(f) ==
    LET main == Main
        prefix == PolicyName \o ".bak."
    IN  {p \in DOMAIN f : /\ Len(p) = Len(main) + 1
                          /\ Parent(p) = main
                          /\ StartsWith(Last(p), prefix)}

\* the render the last call was asked for
NewRender ==
    File(policy_content(args.investigation_label, args.study_label,
                        args.workpackage, call.run.meta, now))

NewRenderNext ==
    File(policy_content(args.investigation_label, args.study_label,
                        args.workpackage, call'.run.meta, now))

(***************************************************************************)
(* Runs on a tree in which regular files are in the way                    *)
(***************************************************************************)
\* the paths a user may occupy with a regular file: the main folder and
\* every path the structure names below it
Obstacles(a) == {MainOf(a)} \cup NamedBelow(MainOf(a), resolved_structure(a))

InTheWay == File(<<"in the way">>)

\* a user puts a regular file where nothing exists yet, making the
\* directories above it where they are missing
Obstruct ==
    /\ Cardinality(DOMAIN userAdded) < MaxUserAdds
    /\ \E p \in Obstacles(args) :
       \E above \in {makedirs(fs, Parent(p), TRUE)} :
         /\ ~Exists(fs, p)
         /\ above.ok
         /\ fs' = Put(above.fs, p, InTheWay)
         /\ userAdded' = Put(userAdded, p, InTheWay)
    /\ call' = [call EXCEPT !.touched = TRUE]
    /\ UNCHANGED <<now, args, ncalls, input, output>>

\* the user takes such a file away again
Clear ==
    /\ \E p \in DOMAIN userAdded :
         /\ IsFile(fs, p)
         /\ fs' = [q \in DOMAIN fs \ {p} |-> fs[q]]
         /\ userAdded' = [q \in DOMAIN userAdded \ {p} |-> userAdded[q]]
    /\ call' = [call EXCEPT !.touched = TRUE]
    /\ UNCHANGED <<now, args, ncalls, input, output>>

NextTree == CallStructure \/ Obstruct \/ Clear

SpecTree == Init /\ [][NextTree]_vars

(***************************************************************************)
(* C1  Every file or directory a user added under the main folder, at a    *)
(* path the structure does not name and that is not FOLDER_POLICY.md, is   *)
(* still there with the content the user gave it after every later run,    *)
(* whatever overwrite_existing was.                                        *)
(***************************************************************************)
C1_UserAdditionsSurvive ==
    [][(CallStep /\ call'.op = "structure")
         => \A p \in DOMAIN userAdded :
               (/\ Under(p, Main) /\ p # Main
                /\ p \notin NamedPaths /\ p # PolicyPath(Main)
                /\ Exists(fs, p) /\ fs[p] = userAdded[p])
                   => Exists(fs', p) /\ fs'[p] = userAdded[p]]_vars

(***************************************************************************)
(* C2  A second run with identical arguments on the tree a successful      *)
(* first run left returns the same path, raises nothing and leaves the set *)
(* of directories as it was.                                               *)
(***************************************************************************)
C2_RerunKeepsDirectories ==
    [][(CallStep /\ call'.rerun)
         => /\ call'.result = "ok"
            /\ call'.ret = call.ret
            /\ DirSet(fs') = DirSet(fs)]_vars

C2_Witness ==
    /\ call.op = "structure" /\ call.rerun /\ call.result = "ok"
    /\ NamedPaths \subseteq DirSet(fs)

(***************************************************************************)
(* C3  A call with a target_path that does not exist fails with            *)
(* FileNotFoundError and changes nothing in the filesystem, whatever the   *)
(* other arguments are.                                                    *)
(***************************************************************************)
C3_MissingTargetFails ==
    (call.op = "structure" /\ args.target_path = MissingDir)
        => call.result = "FileNotFoundError" /\ fs = BaseFs

C3_Witness ==
    /\ call.op = "structure" /\ args.target_path = MissingDir
    /\ call.result = "FileNotFoundError"
    /\ args.folder_name = None /\ args.workpackage = None

(***************************************************************************)
(* C4  Without a folder_name and with one of workpackage,                  *)
(* investigation_label, study_label, study_slug missing or empty, the call *)
(* fails with ValueError; and whenever a call fails with ValueError no     *)
(* directory or file has been created.                                     *)
(***************************************************************************)
NamingIncomplete ==
    /\ args.folder_name = None
    /\ \E v \in {args.workpackage, args.investigation_label,
                 args.study_label, args.study_slug} : v = None \/ v = ""

\* as claimed: for every such call
C4_AsClaimed ==
    /\ (call.op = "structure" /\ NamingIncomplete) => call.result = "ValueError"
    /\ call.result = "ValueError" => fs = BaseFs

\* as amended: for every such call on a target_path that exists (a missing
\* one fails with FileNotFoundError first)
C4_IncompleteNamingFails ==
    /\ (call.op = "structure" /\ NamingIncomplete /\ args.target_path = TargetDir)
          => call.result = "ValueError"
    /\ call.result = "ValueError" => fs = BaseFs

C4_Witness ==
    /\ call.op = "structure" /\ NamingIncomplete /\ args.target_path = TargetDir
    /\ args.workpackage = "" /\ args.create_investigation_folder
    /\ call.result = "ValueError"

C4_WitnessCustomName ==
    /\ call.op = "structure" /\ args.folder_name # None
    /\ call.result = "ValueError"

(***************************************************************************)
(* C5  With FOLDER_POLICY.md present and overwrite_existing false the      *)
(* policy step changes nothing: the file keeps its content whatever the    *)
(* new metadata is, no backup file appears, and create_folder_policy       *)
(* returns the policy path.                                                *)
(***************************************************************************)
C5_ExistingPolicyKept ==
    [][(/\ CallStep /\ PolicyStepTaken'
        /\ call'.existed /\ ~call'.run.overwrite_existing)
         => /\ Exists(fs', PolicyPath(Main))
            /\ fs'[PolicyPath(Main)] = fs[PolicyPath(Main)]
            /\ Backups(fs') = Backups(fs)
            /\ call'.op = "policy" => call'.ret = PolicyPath(Main) /\ fs' = fs]_vars

C5_Witness ==
    /\ call.op = "policy" /\ call.existed /\ ~call.run.overwrite_existing
    /\ IsFile(fs, PolicyPath(Main))
    /\ fs[PolicyPath(Main)] # NewRender

(***************************************************************************)
(* C6  With FOLDER_POLICY.md present and overwrite_existing true, every    *)
(* call replaces the policy content with the new render and produces       *)
(* exactly one new backup file, holding the content the policy file had    *)
(* just before the call. Stated here for the calls whose backup copy and   *)
(* whose write both succeed, on trees where no user file bears a backup's  *)
(* name.                                                                   *)
(***************************************************************************)
C6_OneNewBackupPerOverwrite ==
    [][(/\ CallStep /\ PolicyStepTaken'
        /\ call'.existed /\ call'.run.overwrite_existing
        /\ call'.backup = "ok" /\ call'.write = "ok"
        /\ \A p \in DOMAIN userAdded : p \notin Backups(fs))
         => /\ fs'[PolicyPath(Main)] = NewRenderNext
            /\ Cardinality(Backups(fs') \ Backups(fs)) = 1
            /\ \A b \in Backups(fs') \ Backups(fs) : fs'[b] = fs[PolicyPath(Main)]]_vars

(***************************************************************************)
(* C7  A run that finds no FOLDER_POLICY.md and whose write does not fail  *)
(* leaves a regular file FOLDER_POLICY.md in the main folder and creates   *)
(* no backup file, for either value of overwrite_existing.                 *)
(***************************************************************************)
C7_FirstRunWritesPolicy ==
    [][(/\ CallStep /\ call'.op = "structure" /\ call'.result = "ok"
        /\ ~call'.existed /\ call'.write # "failed")
         => /\ IsFile(fs', PolicyPath(Main))
            /\ fs'[PolicyPath(Main)] = NewRenderNext
            /\ Backups(fs') = Backups(fs)]_vars

C7_Witness ==
    /\ call.op = "structure" /\ call.result = "ok" /\ ~call.existed
    /\ call.write = "ok" /\ ~call.run.overwrite_existing
    /\ IsFile(fs, PolicyPath(Main))

(***************************************************************************)
(* C8  When the write of FOLDER_POLICY.md fails, create_folder_policy      *)
(* raises nothing and returns the policy path, and the run of              *)
(* create_folder_structure around it returns the main folder as usual.     *)
(***************************************************************************)
C8_WriteFailureTolerated ==
    call.write = "failed"
        => /\ call.result = "ok"
           /\ call.ret = IF call.op = "policy" THEN PolicyPath(Main) ELSE Main

C8_Witness ==
    /\ call.op = "structure" /\ call.write = "failed" /\ call.result = "ok"
    /\ ~Exists(fs, PolicyPath(Main))

(***************************************************************************)
(* C9  When the backup of the existing policy file fails in a call with    *)
(* overwrite_existing true, nothing is raised and the call goes on: the    *)
(* policy file is replaced with the new render and the path returned.      *)
(***************************************************************************)
\* as claimed
C9_AsClaimed ==
    call.backup = "failed"
        => /\ call.result = "ok"
           /\ call.ret = IF call.op = "policy" THEN PolicyPath(Main) ELSE Main
           /\ Exists(fs, PolicyPath(Main))
           /\ fs[PolicyPath(Main)] = NewRender

\* as amended: the write is still attempted, and replaces the policy file
\* unless the write fails as well
C9_BackupFailureTolerated ==
    call.backup = "failed"
        => /\ call.result = "ok"
           /\ call.ret = IF call.op = "policy" THEN PolicyPath(Main) ELSE Main
           /\ call.write # "none"
           /\ call.write = "ok"
                => Exists(fs, PolicyPath(Main)) /\ fs[PolicyPath(Main)] = NewRender

C9_Witness ==
    /\ call.op = "policy" /\ call.backup = "failed" /\ call.write = "ok"
    /\ fs[PolicyPath(Main)] = NewRender
    /\ Backups(fs) = {}

(***************************************************************************)
(* C10  Without a folder_name the run returns the main folder              *)
(* <target>/i_<workpackage>_<investigation_label>/                         *)
(* s_<investigation_label>-<study_label>_<slug>, and that directory exists *)
(* afterwards.                                                             *)
(***************************************************************************)
DefaultNamed == call.op = "structure" /\ call.result = "ok" /\ args.folder_name = None

C11_InvestigationDir ==
    args.target_path \o << "i_" \o args.workpackage \o "_" \o args.investigation_label >>

C11_StudyName ==
    "s_" \o args.workpackage \o "-" \o args.investigation_label
         \o "-" \o args.study_label \o "_" \o args.study_slug

CustomNamed ==
    /\ call.op = "structure" /\ call.result = "ok"
    /\ args.folder_name # None /\ ~args.create_investigation_folder

C12_WitnessSingleSegment ==
    /\ CustomNamed /\ args.folder_name = "custom_project_folder"
    /\ call.ret = <<"tmp", "custom_project_folder">>
    /\ IsDir(fs, call.ret)

(***************************************************************************)
(* C13  With investigation_label and study_label both present, every       *)
(* first-level key K of the structure is made as the directory             *)
(* <root>/<investigation_label>-<study_label>_K and no directory <root>/K  *)
(* is made; the names below the first level are made as they are written.  *)
(* Stated on the directories found below the returned root after runs on   *)
(* an empty target: they are exactly the ones listed here.                 *)
(***************************************************************************)
C13_Labelled(key) == args.investigation_label \o "-" \o args.study_label \o "_" \o key

C13_Expected ==
    IF args.structure = NoStructure
    THEN { <<C13_Labelled("raw")>>, <<C13_Labelled("processed")>>,
           <<C13_Labelled("metadata")>> }
    ELSE IF args.structure = described_structure
    THEN { <<C13_Labelled("notes.txt")>>, <<C13_Labelled("protocols")>>,
           <<C13_Labelled("data")>>,
           <<C13_Labelled("data"), "samples.csv">>,
           <<C13_Labelled("data"), "raw">> }
    ELSE { <<C13_Labelled("data")>>,
           <<C13_Labelled("data"), "raw">>,
           <<C13_Labelled("data"), "processed">>,
           <<C13_Labelled("data"), "processed", "batch1">>,
           <<C13_Labelled("data"), "processed", "batch2">>,
           <<C13_Labelled("docs")>>,
           <<C13_Labelled("docs"), "reports">>,
           <<C13_Labelled("docs"), "protocols">> }

C14_Kept(user) == user \in KeptUsers

C14_FilterKeepsPrivileged ==
    output.op = "filter"
        => /\ output.value = SelectSeq(input.users, C14_Kept)
           /\ output.given = input.users

C14_Witness ==
    /\ output.op = "filter"
    /\ input.users =
         << [name |-> "Hal", role |-> "Co-Owner", access_level |-> "READ-WRITE-SHARE"],
            [name |-> "Bob", role |-> "PI", access_level |-> "read-write-share"] >>
    /\ output.value = << [name |-> "Bob", role |-> "PI", access_level |-> "read-write-share"] >>

(***************************************************************************)
(* C15  For a study record whose principal investigator is given by the    *)
(* name and email fields only and is not one of the listed persons,        *)
(* filtering what parse_users_from_study_json returns gives exactly the    *)
(* owner records followed by the principal investigator's record, and no   *)
(* contributor or reader record.                                           *)
(***************************************************************************)
\* the person an entry or a name stands for
PersonOf(name) ==
    CASE name = "John Doe (john@example.org)" -> "john doe"
      [] name = "JOHN DOE" -> "john doe"
      [] name = "Jane Smith" -> "jane smith"
      [] name = "Jane Smithson  ( smithson@example.org )" -> "jane smithson"
      [] name = "Bob Wilson (bob@example.org)" -> "bob wilson"
      [] name = "Bob Wilson" -> "bob wilson"
      [] name = "Jane Smith (jane@example.org)" -> "jane smith"
      [] name = "Jane Smithson (smithson@example.org)" -> "jane smithson"
      [] name = "JOHN DOE (john@example.org)" -> "john doe"
      [] name = "Ann Lee (ann@example.org)" -> "ann lee"
      [] name = "Eve Davis" -> "eve davis"
      [] name = "Ann Lee" -> "ann lee"
      [] OTHER -> name

\* the name an entry is shown with
ShownAs(entry) ==
    CASE entry = "Jane Smithson  ( smithson@example.org )"
           -> "Jane Smithson (smithson@example.org)"
      [] OTHER -> entry

StudyOwners == Get(input.study, "owners", << >>)
StudyListed ==
    StudyOwners \o Get(input.study, "contributors", << >>)
                \o Get(input.study, "readers", << >>)
StudyPIName == Get(input.study, "effective_principal_investigator_name", None)
StudyPIEmail == Get(input.study, "effective_principal_investigator_email", None)

\* the principal investigator is named and is none of the listed persons
PIOnlyInFields ==
    /\ input.kind = "study"
    /\ StudyPIName # None /\ StudyPIName # ""
    /\ \A i \in 1..Len(StudyListed) : PersonOf(StudyListed[i]) # PersonOf(StudyPIName)

ExpectedOwners ==
    [i \in 1..Len(StudyOwners) |->
        [name |-> ShownAs(StudyOwners[i]), role |-> "Owner",
         access_level |-> "READ-WRITE-SHARE", expiration |-> "PERMANENT"]]

ExpectedPI ==
    [name |-> IF StudyPIEmail = None THEN StudyPIName
              ELSE StudyPIName \o " (" \o StudyPIEmail \o ")",
     role |-> "Principal Investigator",
     access_level |-> "READ-WRITE-SHARE", expiration |-> "PERMANENT"]

C15_OwnersThenPI ==
    (output.op = "parse_filter" /\ PIOnlyInFields)
        => output.value = Append(ExpectedOwners, ExpectedPI)

(***************************************************************************)
(* C16  parse_users_from_study_json returns one record per entry of        *)
(* owners, then of contributors, then of readers, with the roles Owner,    *)
(* Contributor and Reader; with no principal investigator given the result *)
(* has as many records as there are entries (none for an empty study       *)
(* record). Owner and principal investigator records carry                 *)
(* READ-WRITE-SHARE, contributor and reader records READ, and every record *)
(* has the expiration PERMANENT.                                           *)
(***************************************************************************)
StudyContributors == Get(input.study, "contributors", << >>)
StudyReaders == Get(input.study, "readers", << >>)

\* role and access level expected at position i of the result
ExpectedAt(i) ==
    LET no == Len(StudyOwners)
        nc == Len(StudyContributors)
        nr == Len(StudyReaders)
    IN  IF i <= no
        THEN [name |-> ShownAs(StudyOwners[i]), role |-> "Owner",
              access_level |-> "READ-WRITE-SHARE", expiration |-> "PERMANENT"]
        ELSE IF i <= no + nc
        THEN [name |-> ShownAs(StudyContributors[i - no]), role |-> "Contributor",
              access_level |-> "READ", expiration |-> "PERMANENT"]
        ELSE IF i <= no + nc + nr
        THEN [name |-> ShownAs(StudyReaders[i - no - nc]), role |-> "Reader",
              access_level |-> "READ", expiration |-> "PERMANENT"]
        ELSE ExpectedPI

C16_WitnessEmptyStudy ==
    /\ output.op = "parse" /\ DOMAIN input.study = {} /\ output.value = << >>

(***************************************************************************)
(* C17  The principal-investigator record is appended only if the          *)
(* principal investigator is not already among the records built from      *)
(* owners, contributors and readers, so the result never has two rows for  *)
(* the same person, also when the principal investigator is listed as an   *)
(* owner by bare name while an email of the principal investigator is      *)
(* given.                                                                  *)
(***************************************************************************)
PIListed ==
    \E j \in 1..Len(StudyListed) : PersonOf(StudyListed[j]) = PersonOf(StudyPIName)

PIRowAdded ==
    \E i \in 1..Len(output.value) : output.value[i].role = "Principal Investigator"

C17_NoSecondRowForPI ==
    (output.op = "parse" /\ StudyPIName # None /\ PIListed) => ~PIRowAdded

(***************************************************************************)
(* C18  Whenever no explicit slug is available, the slug in the generated  *)
(* folder name is the study title lowercased, with spaces replaced by      *)
(* hyphens and every character outside [a-z0-9-] removed, or the           *)
(* lowercased study label if no title is given, in the command-line mode   *)
(* and in the study-configuration mode of main alike; applying the         *)
(* derivation to a slug returns it unchanged.                              *)
(***************************************************************************)
ArgvConfig == input.argv.study_config

\* the title, the label and the explicit slug the run has at hand
TitleAtHand ==
    IF Truthy(input.argv.study_title) \/ ArgvConfig = << >>
    THEN input.argv.study_title
    ELSE Get(ArgvConfig[1], "title", None)
LabelsAtHand ==
    \/ ArgvConfig # << >>
    \/ /\ input.argv.investigation = "I1" /\ input.argv.study = "S2"
       /\ input.argv.workpackage = "WP1"
ExplicitSlug == ArgvConfig # << >> /\ "slug" \in DOMAIN ArgvConfig[1]

\* the slug the derivation is to give, title by title
SlugExpected ==
    CASE TitleAtHand = "My Test Study" -> "my-test-study"
      [] TitleAtHand = "RNA-Seq: Leaf (2024)!" -> "rna-seq-leaf-2024"
      [] TitleAtHand = "my-test-study" -> "my-test-study"
      [] OTHER -> "s2"

C18_SlugDerived ==
    (output.op = "main" /\ LabelsAtHand /\ ~ExplicitSlug /\ input.argv.folder_name = None)
        => /\ output.parsed
           /\ args.study_slug = SlugExpected
           /\ slug_of_title(SlugExpected) = SlugExpected
           /\ call.result = "ok" => Last(call.ret) = "s_WP1-I1-S2_" \o SlugExpected
           /\ call.result \in {"ok", "OSError"}

(***************************************************************************)
(* C19  A key of the structure that contains a '.' and has a string value  *)
(* is written by create_directory_structure as a file; after two runs      *)
(* with different contents the file holds the content of the second run;   *)
(* a file created by hand beside it that the structure does not name is    *)
(* left as it was.                                                         *)
(***************************************************************************)
ISARan == output.op \in {"create", "execute"}

\* the files of the structure of the last run: path and text
RECURSIVE FilesOf(_, _)
FilesOf(base_path, items) ==
    UNION { LET key == items[i][1]
                value == items[i][2]
            IN  IF value.kind = "str" /\ Contains(key, ".")
                THEN {<<Join(base_path, key), value.text>>}
                ELSE IF value.kind = "dict"
                THEN FilesOf(Join(base_path, key), value.items)
                ELSE {} : i \in 1..Len(items) }

C19_FilesOverwritten ==
    (ISARan /\ output.ok)
        => /\ \A file \in FilesOf(ISATarget, output.structure.items) :
                /\ IsFile(fs, file[1])
                /\ fs[file[1]].content = <<file[2]>>
           /\ \A p \in DOMAIN userAdded :
                p \notin output.named => fs[p] = userAdded[p]

C19_Witness ==
    /\ ISARan /\ output.ok /\ output.op = "create"
    /\ output.earlier # << >>
    /\ <<Join(ISATarget, "data/notes.txt"), "first content">>
           \in FilesOf(ISATarget, output.earlier[1].items)
    /\ fs[Join(ISATarget, "data/notes.txt")].content = <<"second content">>
    /\ Join(ISATarget, "data/manual_notes.txt") \in DOMAIN userAdded
    /\ fs[Join(ISATarget, "data/manual_notes.txt")].content = <<"written by hand">>

(***************************************************************************)
(* C20  A '_readme' key in a mapping at any level, the top-level mapping   *)
(* of the structure included, never produces a directory or file named     *)
(* '_readme': it only supplies the content of README.md of the directory   *)
(* the mapping describes, and the other keys of the mapping are expanded.  *)
(***************************************************************************)
C20_ReadmeKeyNeverAChild ==
    ISARan => \A p \in DOMAIN fs : p = << >> \/ Last(p) # "_readme"

(***************************************************************************)
(* C21  A structure entry whose value is a list of names results in the    *)
(* entry's own directory and, inside it, one empty directory per listed    *)
(* name; this holds for create_folder_structure and for                    *)
(* ISADirectoryCreator.create_directory_structure alike.                   *)
(***************************************************************************)
\* the entries of a mapping whose value is a list: path and names
RECURSIVE ListEntries(_, _)
ListEntries(base_path, items) ==
    UNION { LET current_path == Join(base_path, items[i][1])
                value == items[i][2]
            IN  IF value.kind = "list" THEN {<<current_path, value.items>>}
                ELSE IF value.kind = "dict" THEN ListEntries(current_path, value.items)
                ELSE {} : i \in 1..Len(items) }

\* the entry's directory exists and holds a directory for each name
ListMaterialized(entry) ==
    /\ IsDir(fs, entry[1])
    /\ \A i \in 1..Len(entry[2]) : IsDir(fs, Join(entry[1], entry[2][i]))

C21_InStudyFolder ==
    (call.op = "structure" /\ call.result = "ok")
        => \A entry \in ListEntries(Main, resolved_structure(args).items) :
              ListMaterialized(entry)

C21_InISATree ==
    (ISARan /\ output.ok)
        => \A entry \in ListEntries(ISATarget, output.structure.items) :
              ListMaterialized(entry)

C21_SiblingListMaterialized == C21_InStudyFolder /\ C21_InISATree

(***************************************************************************)
(* C22  ISADirectoryCreator.execute called with a target_path that does    *)
(* not exist before the run fails with the target-unavailable error and    *)
(* changes nothing in the filesystem: no directory is created anywhere.    *)
(***************************************************************************)
ExecuteStep == ncalls' # ncalls /\ output'.op = "execute"

C22_MissingTargetRefused ==
    [][(ExecuteStep /\ ~Exists(fs, ISATarget)) => (~output'.ok /\ fs' = fs)]_vars

(***************************************************************************)
(* C23  In create_folder_structure, a key of a structure mapping that      *)
(* contains a '.' and has a string value is made a file with that string   *)
(* as content, and a key without '.' that has a string value is made a     *)
(* directory holding a README.md with that string.                         *)
(***************************************************************************)
\* the entries of a mapping whose value is a string: path, key and text
RECURSIVE StringEntries(_, _)
StringEntries(base_path, items) ==
    UNION { LET current_path == Join(base_path, items[i][1])
                value == items[i][2]
            IN  IF value.kind = "str" THEN {<<current_path, items[i][1], value.text>>}
                ELSE IF value.kind = "dict" THEN StringEntries(current_path, value.items)
                ELSE {} : i \in 1..Len(items) }

StringMaterialized(entry) ==
    IF Contains(entry[2], ".")
    THEN IsFile(fs, entry[1]) /\ fs[entry[1]].content = <<entry[3]>>
    ELSE /\ IsDir(fs, entry[1])
         /\ IsFile(fs, Append(entry[1], "README.md"))
         /\ fs[Append(entry[1], "README.md")].content = <<entry[3]>>

C23_StringValuesMaterialized ==
    (call.op = "structure" /\ call.result = "ok")
        => \A entry \in StringEntries(Main, resolved_structure(args).items) :
              StringMaterialized(entry)

(***************************************************************************)
(* C24  A re-run of ISADirectoryCreator.execute never truncates or         *)
(* rewrites a file that is neither a file nor a README of the structure:   *)
(* a file the user placed or edited at <target_path>/README.md, when the   *)
(* structure defines no README of the root, has the same content after     *)
(* the re-run.                                                             *)
(***************************************************************************)
\* the step is a run of execute after an earlier run of it
ExecuteRerun == ExecuteStep /\ output.op = "execute"

C24_RerunKeepsOtherFiles ==
    [][ExecuteRerun
         => \A p \in DOMAIN userAdded :
               (/\ fs[p] = userAdded[p]
                /\ p \notin NamedByISA(ISATarget, output'.structure.items))
                   => fs'[p] = fs[p]]_vars

(***************************************************************************)
(* C25  create_folder_structure takes its steps in order: the check of     *)
(* the target and of the naming arguments, then the main folder, then the  *)
(* directories of the structure depth-first with every parent before its   *)
(* children, and the policy file last; when a directory creation raises,   *)
(* the run ends there and has neither created nor changed the policy file. *)
(***************************************************************************)
RECURSIVE PreOrder(_, _)
RECURSIVE PreOrderFrom(_, _, _)
\* the paths of a mapping's or list's entries from index i on, every entry
\* followed by what lies below it
PreOrderFrom(parent, struct, i) ==
    IF i > Len(struct.items) THEN << >>
    ELSE IF struct.kind = "list"
    THEN <<Join(parent, struct.items[i])>> \o PreOrderFrom(parent, struct, i + 1)
    ELSE <<Join(parent, struct.items[i][1])>>
             \o PreOrder(Join(parent, struct.items[i][1]), struct.items[i][2])
             \o PreOrderFrom(parent, struct, i + 1)

PreOrder(parent, struct) ==
    IF struct.kind \in {"list", "dict"} THEN PreOrderFrom(parent, struct, 1) ELSE << >>

\* the order of creation: the folders above the main folder, the main
\* folder, the structure
CreationOrder ==
    [i \in 1..(Len(Main) - Len(args.target_path)) |->
        SubSeq(Main, 1, Len(args.target_path) + i)]
    \o PreOrder(Main, resolved_structure(args))

\* what the step created is the beginning of the order of creation
CreatedInOrder(order, created) ==
    /\ created \subseteq {order[i] : i \in 1..Len(order)}
    /\ \E k \in 0..Len(order) :
          /\ \A i \in 1..k : Exists(fs', order[i])
          /\ \A i \in (k + 1)..Len(order) : order[i] \notin created

PolicyUntouched(policy_path) ==
    /\ Exists(fs', policy_path) <=> Exists(fs, policy_path)
    /\ Exists(fs, policy_path) => fs'[policy_path] = fs[policy_path]
    /\ {p \in DOMAIN fs' : IsFile(fs', p)} = {p \in DOMAIN fs : IsFile(fs, p)}

C25_StepsInOrder ==
    [][(CallStep /\ call'.op = "structure")
         => \A order \in {CreationOrder}, policy_path \in {PolicyPath(Main)} :
            \A created \in {DirSet(fs') \ DirSet(fs)} :
              /\ CreatedInOrder(order, created)
              /\ \A p \in created : Parent(p) \in DirSet(fs')
              /\ call'.result = "OSError" => PolicyUntouched(policy_path)
              /\ call'.result = "ok" => \A i \in 1..Len(order) : Exists(fs', order[i])]_vars

C25_Witness ==
    /\ call.op = "structure" /\ call.result = "OSError" /\ ~call.touched
    /\ ~Exists(fs, PolicyPath(Main))
    /\ IsDir(fs, CreationOrder[2])
    /\ ~Exists(fs, Last(CreationOrder))

(***************************************************************************)
(* C26  Whenever the study record has a principal-investigator name, the   *)
(* list parse_users_from_study_json returns holds a record for that person *)
(* with the READ-WRITE-SHARE access level, also when the same person (same *)
(* name and email) is listed as a contributor or reader.                   *)
(***************************************************************************)
C26_PIHasPrivilegedRecord ==
    (output.op = "parse" /\ Truthy(StudyPIName))
        => \E i \in 1..Len(output.value) :
              /\ PersonOf(output.value[i].name) = PersonOf(StudyPIName)
              /\ output.value[i].access_level = "READ-WRITE-SHARE"

(***************************************************************************)
(* C27  overwrite_existing affects only FOLDER_POLICY.md and its backups:  *)
(* two runs of create_folder_structure from the same filesystem with the   *)
(* same arguments except overwrite_existing return the same path and agree *)
(* on every directory and file other than FOLDER_POLICY.md and the         *)
(* FOLDER_POLICY.md.bak.* files.                                           *)
(***************************************************************************)
\* f without the policy file of the main folder and its backups
WithoutPolicyFiles(f, main) ==
    LET kept == {p \in DOMAIN f :
                    ~(/\ Parent(p) = main
                      /\ \/ Last(p) = PolicyName
                         \/ StartsWith(Last(p), PolicyName \o ".bak."))}
    IN  [p \in kept |-> f[p]]

C27_OverwriteOnlyTouchesPolicy ==
    [][(CallStep /\ call'.op = "structure")
         => \A m \in {materialize(fs, args)}, main \in {Main} :
            \A other \in {[call'.run EXCEPT !.overwrite_existing = ~@]}, io \in IOs :
              CanFail(m.result = "ok", m.fs, PolicyPath(m.main), other.overwrite_existing, io)
                 => \A r \in {finish(m, args, other, now, io)} :
                      /\ r.result = call'.result
                      /\ r.ret = call'.ret
                      /\ WithoutPolicyFiles(r.fs, main) = WithoutPolicyFiles(fs', main)]_vars

C27_Witness ==
    /\ call.op = "structure" /\ call.result = "ok"
    /\ call.existed /\ call.run.overwrite_existing /\ call.backup = "ok"
    /\ Backups(fs) # {}

(***************************************************************************)
(* C28  After a run of create_folder_structure was aborted part-way        *)
(* through the creation of the directories and left a partial tree, a      *)
(* re-run with the same arguments, once the cause of the failure is gone,  *)
(* succeeds, leaves every entry that exists as it is and ends with the     *)
(* directory set of an uninterrupted first run.                            *)
(***************************************************************************)
\* no regular file lies on a path the run is to create
CauseGone(order) == \A i \in 1..Len(order) : ~IsFile(fs, order[i])

\* the directories an uninterrupted first run leaves
FullTree(order) == DirSet(BaseFs) \cup {order[i] : i \in 1..Len(order)}

C28_RerunCompletesPartialTree ==
    [][(CallStep /\ call.op = "structure" /\ call.result = "OSError")
         => \A order \in {CreationOrder} :
              CauseGone(order)
                 => /\ call'.result = "ok"
                    /\ call'.ret = Main
                    /\ \A p \in DOMAIN fs : Exists(fs', p) /\ fs'[p] = fs[p]
                    /\ DirSet(fs') = FullTree(order)]_vars

C28_Witness ==
    /\ call.op = "structure" /\ call.previous = "OSError" /\ call.result = "ok"
    /\ userAdded = NoFiles
    /\ DirSet(fs) = FullTree(CreationOrder)

(***************************************************************************)
(* C29  Whenever create_folder_structure returns normally, the returned    *)
(* main folder and every path the label-prefixed structure names exist as  *)
(* directories, whatever was under the target before, a regular file on    *)
(* one of those paths included.                                            *)
(***************************************************************************)
C29_NamedPathsAreDirectories ==
    (call.op = "structure" /\ call.result = "ok" /\ ~call.touched)
        => /\ IsDir(fs, call.ret)
           /\ \A p \in NamedBelow(call.ret, resolved_structure(args)) : IsDir(fs, p)

(***************************************************************************)
(* C30  Over any sequence of create_folder_policy calls with               *)
(* overwrite_existing true on the same folder, calls within the same clock *)
(* second included, no backup file that exists is overwritten or removed:  *)
(* each call that finds a policy file adds one FOLDER_POLICY.md.bak.*      *)
(* file, and every policy content that was replaced stays available in a   *)
(* backup file. Stated for the calls whose backup copy does not fail.      *)
(***************************************************************************)
C30_BackupsAccumulate ==
    [][(/\ CallStep /\ call'.op = "policy"
        /\ call'.existed /\ call'.run.overwrite_existing /\ call'.backup = "ok")
         => \A before \in {Backups(fs)}, after \in {Backups(fs')} :
              /\ \A b \in before : b \in after /\ fs'[b] = fs[b]
              /\ Cardinality(after) = Cardinality(before) + 1
              /\ \E b \in after : fs'[b] = fs[PolicyPath(Main)]]_vars

====
